---- MODULE Spec2Model ----
(***************************************************************************)
(* Model of NADClient (custom_components/nad_avr/nad_client.py): one       *)
(* asyncio session object, its reader task, its reconnect task and the     *)
(* coroutines callers run on it (connect, disconnect, send_command,        *)
(* query).  asyncio is cooperative: a task runs without interruption from  *)
(* one await to the next, so every action below is the code between two    *)
(* suspension points of one task.                                          *)
(*                                                                         *)
(* Timing: the timers of the code (READ_TIMEOUT 10s, RECONNECT_DELAY 5s,   *)
(* the query timeout) are long compared with one turn of the event loop,   *)
(* so a timer expires only when no task is runnable (Runnable).            *)
(***************************************************************************)
EXTENDS Integers, Sequences, FiniteSets, TLC

\* ---- bounds of the model ------------------------------------------------
NCallers == 2          \* concurrent caller contexts
NReaders == 2          \* slots for reader tasks that exist at once
NReconns == 2          \* slots for reconnect tasks that exist at once
\* budget of the query scenario (SpecQuery)
QQueries == 2          \* query() calls
QEvents == 1           \* unsolicited lines the device pushes
QFails == 1            \* connection attempts the device refuses
\* budget of the connection-loss scenario (SpecLoss)
LConnects == 2         \* connect() calls made by callers
LSocks == 2            \* connections the device accepts
LFails == 2            \* connection attempts the device refuses
\* budget of the waiting scenario (SpecWait)
WQueries == 2          \* query() calls
WDisconnects == 1      \* disconnect() calls
WFails == 1            \* connection attempts the device refuses
WEvents == 1           \* unsolicited lines the device pushes
\* budget of the integration scenario (SpecEntity)
EConnects == 2         \* connect() calls
EFails == 1            \* connection attempts the device refuses
EEvents == 1           \* unsolicited lines the device pushes
\* budget of the source-directory scenario (SpecSources)
SEvents == 3           \* unsolicited lines the device pushes
NSources == 2          \* sources those lines are about
NNames == 2            \* names the device gives them
\* inputs of the volume scenario (SpecVolume)
VolMargin == 2         \* how far outside the range a reported Main.Volume value may be
Ulps == 4              \* parts of a unit: a float rounding moves a result by less than one
\* budget of the failing-callback scenario (SpecRaise)
RConnects == 2         \* connect() calls made by callers
RFails == 1            \* connection attempts the device refuses
\* budget of the cancelled-query scenario (SpecCancel)
CQueries == 2          \* query() calls
CFails == 1            \* connection attempts the device refuses
CEvents == 1           \* unsolicited lines the device pushes
\* budget of the shutdown scenario (SpecDisc)
DDisconnects == 2      \* disconnect() calls
DConnects == 2         \* connect() calls made by callers
DFails == 1            \* connection attempts the device refuses

Max2(a, b) == IF a >= b THEN a ELSE b
Min2(a, b) == IF a <= b THEN a ELSE b
MaxSocks == Max2(LSocks, 2)
MaxCmds == Max2(Max2(Max2(QQueries, WQueries), CQueries), 1)
MaxFrames == MaxCmds + Max2(Max2(Max2(Max2(QEvents, WEvents), EEvents), SEvents), CEvents)

\* const.py 43-45
VOLUME_MIN_DB == -90
VOLUME_MAX_DB == 0
VOLUME_RANGE_DB == 90

Callers == 1..NCallers
Readers == 11..(10 + NReaders)
Reconns == 21..(20 + NReconns)
Tasks == Readers \cup Reconns
Procs == Callers \cup Tasks
Socks == 1..MaxSocks
Cmds == 1..MaxCmds
FrameIds == 1..MaxFrames

VARIABLES
  \* NADClient fields
  connected,           \* self._connected
  reader,              \* self._reader: socket id, 0 = None
  writer,              \* self._writer: socket id, 0 = None
  should_reconnect,    \* self._should_reconnect
  read_task,           \* self._read_task: task id, 0 = None
  reconnect_task,      \* self._reconnect_task: task id, 0 = None
  lock,                \* self._lock: holder, 0 = free
  pending_query,       \* self._pending_query: the caller whose future it is, 0 = None
  status_callback,     \* self._status_callback is set (constructor argument)
  attr_status_callback,  \* the attribute client.status_callback ("unset": no such attribute)
  attr_update_callback,  \* the attribute client.update_callback
  \* coroutines and futures
  pc,                  \* position of every caller / task
  cancelReq,           \* Task.cancel() was called and not yet delivered
  rsock,               \* the StreamReader a reader task is blocked on
  wsock,               \* the StreamWriter a caller's drain() is suspended on
  dwait,               \* the task a disconnect() is awaiting (0: it is done)
  fut,                 \* state of the future each caller created in query()
  futRes,              \* result of that future (frame id)
  awaiting,            \* the future a caller's wait_for is waiting on
  qcmd,                \* the command id of the caller's query in progress
  \* the network and the device
  sock,                \* state of every socket
  buf,                 \* lines received on a socket, not yet read
  devq,                \* commands the device got and has not answered
  frameRe,             \* frame id -> command it answers (0 = unsolicited)
  frameEmpty,          \* frame id -> the line is blank after strip()
  frameMsg,            \* frame id -> the line, as key tokens and value
  nCmds, nFrames, nEvents,
  nFails,              \* connection attempts that failed
  quota,               \* what the callers and the device may still do in this run
  \* history variables
  qres,                \* command id -> how the query() that wrote it returned
  sres,                \* caller -> what its last send_command returned
  qframe,              \* command id -> the frame it returned
  firstAfter,          \* command id -> first non-empty frame the reader got after the write
  handed,              \* frame id -> who got it from the reader ("no": not read, or blank)
  qlost,               \* command id -> the connection was lost while the call waited
  notesTrue,           \* socket -> connectivity-changed(true) calls for it
  lossSeen,            \* socket -> its loss was detected (reader EOF/error, write error)
  lossNotes,           \* socket -> connectivity-changed(false) calls made for its loss
  notesFalse,          \* all connectivity-changed(false) calls
  lost,                \* an established connection was lost and none made since
  discCalled,          \* disconnect() has been called
  autoAfterDisc,       \* a reconnect loop started / auto connect attempted after disconnect()
  hdAfterDisc,         \* _handle_disconnect ran its reconnect check after disconnect()
  discSnap,            \* session fields when disconnect() returned, <<>> once connect() runs
  discAgain,           \* a further disconnect() returned with no connect() in between
  discLeak,            \* a disconnect() returned leaving the session not shut down
  \* the directory of sources (client fields) and the entity
  source_enabled,      \* client.source_enabled: dict, as pairs in insertion order
  source_names,        \* client.source_names: dict, as pairs in insertion order
  attr_source_list,    \* entity._attr_source_list
  attr_volume_level,   \* entity._attr_volume_level, in units of 1 / VOLUME_RANGE_DB
  volume_in,           \* history: <<db>> of the last Main.Volume value converted
  volume_db,           \* history: <<db>> async_set_volume_level last formatted
  escaped,             \* history: the tasks that ended with an exception nobody handles
  idled                \* history: a read of a Connected session ended by READ_TIMEOUT

clientVars == <<connected, reader, writer, should_reconnect, read_task,
                reconnect_task, lock, pending_query, status_callback, attr_status_callback,
                 attr_update_callback>>
coVars == <<pc, cancelReq, rsock, wsock, dwait, fut, futRes, awaiting, qcmd, quota>>
netVars == <<sock, buf, devq, frameRe, frameEmpty, frameMsg, nCmds, nFrames, nEvents, nFails>>
histVars == <<qres, sres, qframe, firstAfter, handed, qlost, notesTrue, lossSeen, lossNotes,
              notesFalse, lost, discCalled, autoAfterDisc, hdAfterDisc,
              discSnap, discAgain, discLeak>>
entityVars == <<source_enabled, source_names, attr_source_list, attr_volume_level,
                volume_in, volume_db>>
vars == <<clientVars, coVars, netVars, histVars, entityVars, escaped, idled>>

\* ---- helpers --------------------------------------------------------------
Min(S) == CHOOSE x \in S : \A y \in S : x <= y

\* asyncio.Task.done()
Done(t) == pc[t] = "dead"
\* `task is None or task.done()`
NoneOrDone(h) == h = 0 \/ Done(h)
Alive(h) == h # 0 /\ ~Done(h)
AliveReaders == {t \in Readers : ~Done(t)}
AliveReconns == {t \in Reconns : ~Done(t)}

\* asyncio.Future.done()
FutDone(c) == fut[c] # "pending"
\* `self._pending_query and not self._pending_query.done()`
Armed(pq, ft) == pq # 0 /\ ft[pq] = "pending"
\* Future.cancel() on the slot's future, when it is armed
CancelSlot(pq, ft) == IF Armed(pq, ft) THEN [ft EXCEPT ![pq] = "cancelled"] ELSE ft

\* a read on the socket would return now (data, EOF or an error)
Readable(s) == s # 0 /\ (buf[s] # <<>> \/ sock[s] \in {"eof", "err", "closed"})
\* the connection of the socket is gone: drain() raises
Broken(s) == sock[s] \in {"err", "closed"}

\* a task the event loop would run at once
Runnable(p) ==
  \/ p \in Tasks /\ pc[p] = "new"
  \/ p \in Tasks /\ ~Done(p) /\ cancelReq[p]
  \/ p \in Readers /\ pc[p] = "read" /\ Readable(rsock[p])
  \/ p \in Callers /\ pc[p] = "q_wait" /\ FutDone(awaiting[p])
  \/ p \in Callers /\ pc[p] \in {"q_lock", "s_lock"} /\ lock = 0
  \/ p \in Callers /\ pc[p] \in {"q_drain", "s_drain"} /\ Broken(wsock[p])
  \/ p \in Callers /\ pc[p] \in {"d_rc", "d_rd"} /\ dwait[p] = 0
TimerMayFire == \A p \in Procs : ~Runnable(p)

\* the fields of the session, and the notifications it has made
Fields == <<connected, reader, writer, should_reconnect, read_task,
            reconnect_task, notesFalse, notesTrue>>

\* a task finished: whoever awaits it is woken
Wake(dw, t) == [c \in Callers |-> IF dw[c] = t THEN 0 ELSE dw[c]]

\* ---- dicts and lines ---------------------------------------------------------
\* a dict is the sequence of its items [k, v] in insertion order
Keys(d) == {d[i].k : i \in DOMAIN d}
\* dict.get(key, default)
Get(d, key, default) ==
  IF key \in Keys(d) THEN d[CHOOSE i \in DOMAIN d : d[i].k = key].v ELSE default
\* d[key] = val
Put(d, key, val) ==
  IF key \in Keys(d)
    THEN [i \in DOMAIN d |-> IF d[i].k = key THEN [k |-> key, v |-> val] ELSE d[i]]
    ELSE Append(d, [k |-> key, v |-> val])
\* list(d.values())
Values(d) == [i \in DOMAIN d |-> d[i].v]

\* const.py 27-37
SOURCES ==
  << [k |-> "1", v |-> "Source 1"], [k |-> "2", v |-> "Source 2"],
     [k |-> "3", v |-> "Source 3"], [k |-> "4", v |-> "Source 4"],
     [k |-> "5", v |-> "Source 5"], [k |-> "6", v |-> "Source 6"],
     [k |-> "7", v |-> "Source 7"], [k |-> "8", v |-> "Source 8"],
     [k |-> "9", v |-> "Source 9"] >>

\* the ids of the sources the device's lines are about, in sorted() order, and
\* the names it gives them
SrcOrder == [i \in 1..NSources |-> SOURCES[i + 2].k]
SrcNames == {<<"Aux", "TV", "Phono">>[i] : i \in 1..NNames}

\* a line "key=value" the device pushes: the key as its tokens, the value as
\* the text after the first "=" (an integer for Main.Volume)
Line(key, value) == [key |-> key, value |-> value]
PowerLine == Line(<<"Main.Power">>, "On")
SourceLines ==
  {Line(<<"Source", SrcOrder[i], ".Enabled">>, v) : i \in DOMAIN SrcOrder, v \in {"Yes", "No"}}
  \cup {Line(<<"Source", SrcOrder[i], ".Name">>, v) : i \in DOMAIN SrcOrder, v \in SrcNames \cup {""}}

\* ---- Init: the object after __init__ (nad_client.py 16-33) ------------------
InitWith(q) ==
  /\ quota = q
  /\ connected = FALSE /\ reader = 0 /\ writer = 0
  /\ should_reconnect = TRUE
  /\ read_task = 0 /\ reconnect_task = 0
  /\ lock = 0 /\ pending_query = 0
  /\ status_callback \in BOOLEAN
  /\ attr_status_callback = "unset" /\ attr_update_callback = "unset"
  /\ pc = [p \in Procs |-> IF p \in Callers THEN "idle" ELSE "dead"]
  /\ cancelReq = [p \in Tasks |-> FALSE]
  /\ rsock = [p \in Readers |-> 0]
  /\ wsock = [c \in Callers |-> 0]
  /\ dwait = [c \in Callers |-> 0]
  /\ fut = [c \in Callers |-> "none"]
  /\ futRes = [c \in Callers |-> 0]
  /\ awaiting = [c \in Callers |-> 0]
  /\ qcmd = [c \in Callers |-> 0]
  /\ sock = [s \in Socks |-> "none"]
  /\ buf = [s \in Socks |-> <<>>]
  /\ devq = [s \in Socks |-> {}]
  /\ frameRe = [f \in FrameIds |-> 0]
  /\ frameEmpty = [f \in FrameIds |-> FALSE]
  /\ frameMsg = [f \in FrameIds |-> PowerLine]
  /\ nCmds = 0 /\ nFrames = 0 /\ nEvents = 0 /\ nFails = 0
  /\ qres = [c \in Cmds |-> "none"]
  /\ sres = [c \in Callers |-> "none"]
  /\ qframe = [c \in Cmds |-> 0]
  /\ firstAfter = [c \in Cmds |-> 0]
  /\ handed = [f \in FrameIds |-> "no"]
  /\ qlost = [c \in Cmds |-> FALSE]
  /\ notesTrue = [s \in Socks |-> 0]
  /\ lossSeen = [s \in Socks |-> FALSE]
  /\ lossNotes = [s \in Socks |-> 0]
  /\ notesFalse = 0
  /\ lost = FALSE
  /\ discCalled = FALSE /\ autoAfterDisc = FALSE /\ hdAfterDisc = FALSE
  /\ discSnap = <<>> /\ discAgain = FALSE
  /\ discLeak = FALSE
  \* nad_client.py 30-31, media_player.py 80-82
  /\ source_enabled = <<>> /\ source_names = <<>>
  /\ attr_source_list = Values(SOURCES)
  /\ attr_volume_level = 0
  /\ volume_in = <<>> /\ volume_db = <<>>
  /\ escaped = {}
  /\ idled = FALSE


\* ---- variable groups ---------------------------------------------------------
\* what _handle_disconnect and the return of its caller may change
hdVars == <<connected, fut, pending_query, qlost, notesFalse, lossNotes, pc,
            qcmd, reconnect_task, cancelReq, autoAfterDisc, hdAfterDisc,
            dwait, lock, qres, sres>>
devVars == <<devq, frameRe, frameEmpty, frameMsg, nCmds, nFrames, nEvents, nFails>>
discHist == <<discCalled, discSnap, discAgain, discLeak>>
handles == <<reader, writer, should_reconnect, read_task, status_callback, attr_status_callback,
                 attr_update_callback, quota>>

\* ---- _handle_disconnect (nad_client.py 136-152) -------------------------------
\* line 150 left out: a loop is started whether or not reconnection is wanted
StartReconnectAlways == NoneOrDone(reconnect_task)
\* line 150-151: the reconnection loop is wanted and none is running
StartReconnect == should_reconnect /\ NoneOrDone(reconnect_task)

\* lines 150-152 when `inIf` (the `if self._connected` branch was taken), then
\* the coroutine that called _handle_disconnect finishes: the reader task ends,
\* send_command / query (command k) return False / None and release the lock
HDTail(p, k, inIf, crIn) ==
  LET start == inIf /\ StartReconnect
      t == Min({x \in Reconns : Done(x)})
      pc1 == IF start THEN [pc EXCEPT ![t] = "new"] ELSE pc
  IN /\ start => \E x \in Reconns : Done(x)
     /\ reconnect_task' = IF start THEN t ELSE reconnect_task
     /\ cancelReq' = IF start THEN [crIn EXCEPT ![t] = FALSE] ELSE crIn
     /\ autoAfterDisc' = (autoAfterDisc \/ (start /\ discCalled))
     /\ hdAfterDisc' = (hdAfterDisc \/ (inIf /\ discCalled))
     /\ IF p \in Readers
          THEN /\ pc' = [pc1 EXCEPT ![p] = "dead"]
               /\ dwait' = Wake(dwait, p)
               /\ UNCHANGED <<lock, qres, sres, qcmd>>
          ELSE /\ pc' = [pc1 EXCEPT ![p] = "idle"]
               /\ lock' = 0
               /\ qres' = IF k # 0 THEN [qres EXCEPT ![k] = "absent"] ELSE qres
               /\ sres' = IF k = 0 THEN [sres EXCEPT ![p] = "false"] ELSE sres
               /\ qcmd' = [qcmd EXCEPT ![p] = 0]
               /\ UNCHANGED dwait

\* line 138 without its test: the transition is made whatever the state
HDGuardOff == TRUE
\* line 138: the transition is made only from Connected
HDGuard == connected

\* lines 143-144 left out: the slot is emptied, its future is not cancelled
HDNoCancel(pq, ft) == ft
\* lines 143-144: the pending future is cancelled
HDCancel(pq, ft) == CancelSlot(pq, ft)

\* p runs _handle_disconnect.  s: the socket whose loss p detected (0: none, p
\* was cancelled or left its loop); k: the command of p's query (0: none);
\* pqIn, futIn, crIn: slot, futures and cancel requests as p's step left them
HandleDisconnect(p, s, k, pqIn, futIn, crIn) ==
  IF HDGuard
    THEN /\ connected' = FALSE
         /\ fut' = HDCancel(pqIn, futIn)
         /\ pending_query' = 0
         /\ qlost' = [c \in Cmds |->
                qlost[c] \/ (s # 0 /\ Armed(pqIn, futIn) /\
                   \E q \in Callers : pc[q] = "q_wait" /\ qcmd[q] = c /\ awaiting[q] = pqIn)]
         /\ IF status_callback
              THEN /\ notesFalse' = notesFalse + 1
                   /\ lossNotes' = IF s # 0 THEN [lossNotes EXCEPT ![s] = @ + 1] ELSE lossNotes
                   /\ pc' = [pc EXCEPT ![p] = "hd_cb"]
                   /\ qcmd' = IF p \in Callers THEN [qcmd EXCEPT ![p] = k] ELSE qcmd
                   /\ lock' = IF p \in Callers THEN p ELSE lock
                   /\ cancelReq' = crIn
                   /\ UNCHANGED <<reconnect_task, autoAfterDisc, hdAfterDisc, dwait, qres, sres>>
              ELSE /\ UNCHANGED <<notesFalse, lossNotes>>
                   /\ HDTail(p, k, TRUE, crIn)
    ELSE /\ UNCHANGED <<connected, qlost, notesFalse, lossNotes>>
         /\ fut' = futIn
         /\ pending_query' = pqIn
         /\ HDTail(p, k, FALSE, crIn)

\* the status callback awaited at line 148 returns
HdCbReturn(p) ==
  /\ pc[p] = "hd_cb"
  /\ p \in Tasks => ~cancelReq[p]
  /\ HDTail(p, IF p \in Callers THEN qcmd[p] ELSE 0, TRUE, cancelReq)
  /\ UNCHANGED <<connected, fut, pending_query, qlost, notesFalse, lossNotes>>
  /\ UNCHANGED <<handles, rsock, wsock, futRes, awaiting, sock, buf, devVars,
                 qframe, firstAfter, handed, entityVars, escaped, idled, notesTrue, lossSeen, lost, discHist>>

\* the status callback awaited at line 148 raises: lines 150-152 are not
\* reached.  In the reader task the exception leaves the finally clause of
\* line 134 and ends the task; in send_command / query it leaves the lock and
\* reaches the caller
HdCbRaise(p) ==
  /\ pc[p] = "hd_cb"
  /\ p \in Tasks => ~cancelReq[p]
  /\ IF p \in Readers
       THEN /\ escaped' = escaped \cup {p}
            /\ UNCHANGED idled
            /\ HDTail(p, 0, FALSE, cancelReq)
       ELSE /\ pc' = [pc EXCEPT ![p] = "idle"]
            /\ lock' = 0
            /\ qres' = IF qcmd[p] # 0 THEN [qres EXCEPT ![qcmd[p]] = "raised"] ELSE qres
            /\ sres' = IF qcmd[p] = 0 THEN [sres EXCEPT ![p] = "raised"] ELSE sres
            /\ qcmd' = [qcmd EXCEPT ![p] = 0]
            /\ UNCHANGED <<reconnect_task, cancelReq, autoAfterDisc, hdAfterDisc, dwait,
                           escaped, idled>>
  /\ UNCHANGED <<connected, fut, pending_query, qlost, notesFalse, lossNotes>>
  /\ UNCHANGED <<handles, rsock, wsock, futRes, awaiting, sock, buf, devVars,
                 qframe, firstAfter, handed, entityVars, notesTrue, lossSeen, lost, discHist>>

\* ---- connect (nad_client.py 40-64) --------------------------------------------
\* connect() returns to p: a caller goes on, the reconnect task is back at the
\* head of its loop (line 156)
ConnReturn(p, conn1, pcIn) ==
  LET again == should_reconnect /\ ~conn1
  IN /\ pc' = [pcIn EXCEPT ![p] = IF p \in Callers THEN "idle"
                                   ELSE IF again THEN "sleep" ELSE "dead"]
     /\ dwait' = IF p \in Reconns /\ ~again THEN Wake(dwait, p) ELSE dwait

\* a caller calls connect(): runs to `await open_connection` (line 44)
ConnectCall(c) ==
  /\ pc[c] = "idle" /\ quota.connect > 0
  /\ quota' = [quota EXCEPT !.connect = @ - 1]
  /\ pc' = [pc EXCEPT ![c] = "conn"]
  /\ discSnap' = <<>>
  /\ UNCHANGED <<clientVars, cancelReq, rsock, wsock, dwait, fut, futRes, awaiting,
                 qcmd, netVars, qres, sres, qframe, firstAfter, handed, entityVars, escaped, idled, qlost, notesTrue, lossSeen,
                 lossNotes, notesFalse, lost, discCalled, autoAfterDisc, hdAfterDisc,
                 discAgain, discLeak>>

\* line 52 without its test: every successful connect() creates a reader task
StartReaderAlways == TRUE
\* line 52: a reader task is to be created
StartReader == NoneOrDone(read_task)

\* open_connection succeeded: lines 44-58
ConnectOk(p) ==
  /\ pc[p] = "conn"
  /\ p \in Tasks => ~cancelReq[p]
  /\ \E x \in Socks : x <= quota.socks /\ sock[x] = "none"
  /\ LET s == Min({x \in Socks : sock[x] = "none"})
         mk == StartReader
         t == Min({x \in Readers : Done(x)})
         pcA == IF mk THEN [pc EXCEPT ![t] = "new"] ELSE pc
     IN /\ mk => \E x \in Readers : Done(x)
        /\ sock' = [sock EXCEPT ![s] = "open"]
        /\ reader' = s /\ writer' = s
        /\ connected' = TRUE
        /\ read_task' = IF mk THEN t ELSE read_task
        /\ cancelReq' = IF mk THEN [cancelReq EXCEPT ![t] = FALSE] ELSE cancelReq
        /\ rsock' = IF mk THEN [rsock EXCEPT ![t] = 0] ELSE rsock
        /\ IF status_callback
             THEN /\ notesTrue' = [notesTrue EXCEPT ![s] = @ + 1]
                  /\ pc' = [pcA EXCEPT ![p] = "cb"]
                  /\ UNCHANGED dwait
             ELSE /\ UNCHANGED notesTrue
                  /\ ConnReturn(p, TRUE, pcA)
  /\ lost' = FALSE
  /\ discSnap' = <<>>
  /\ UNCHANGED <<should_reconnect, reconnect_task, lock, pending_query, status_callback, attr_status_callback,
                 attr_update_callback,
                 quota, wsock, fut, futRes, awaiting, qcmd, buf, devVars,
                 qres, sres, qframe, firstAfter, handed, entityVars, escaped, idled, qlost, lossSeen, lossNotes, notesFalse,
                 discCalled, autoAfterDisc, hdAfterDisc, discAgain, discLeak>>

\* line 61 left out: a failed attempt leaves _connected as it was
FailStateKept == connected
\* line 61: a failed attempt marks the session not connected
FailState == FALSE

\* open_connection timed out or was refused: lines 59-64
ConnectFail(p) ==
  /\ pc[p] = "conn"
  /\ p \in Tasks => ~cancelReq[p]
  /\ nFails < quota.fails
  /\ nFails' = nFails + 1
  /\ connected' = FailState
  /\ IF status_callback
       THEN /\ notesFalse' = notesFalse + 1
            /\ pc' = [pc EXCEPT ![p] = "cb"]
            /\ UNCHANGED dwait
       ELSE /\ UNCHANGED notesFalse
            /\ ConnReturn(p, FALSE, pc)
  /\ discSnap' = <<>>
  /\ UNCHANGED <<reader, writer, should_reconnect, read_task, reconnect_task, lock,
                 pending_query, status_callback, attr_status_callback,
                 attr_update_callback, cancelReq, rsock, wsock, fut, futRes,
                 awaiting, qcmd, quota, sock, buf, devq, frameRe, frameEmpty, frameMsg, nCmds,
                 nFrames, nEvents, qres, sres, qframe, firstAfter, handed, entityVars, escaped, idled, qlost, notesTrue,
                 lossSeen, lossNotes, lost, discCalled, autoAfterDisc, hdAfterDisc,
                 discAgain, discLeak>>

\* the status callback awaited at line 56 or 63 returns, connect() returns
ConnCbReturn(p) ==
  /\ pc[p] = "cb"
  /\ p \in Tasks => ~cancelReq[p]
  /\ ConnReturn(p, connected, pc)
  /\ UNCHANGED <<clientVars, cancelReq, rsock, wsock, fut, futRes, awaiting, qcmd, quota,
                 netVars, histVars, entityVars, escaped, idled>>

\* the status callback awaited at line 56 or 63 raises something that line 59
\* does not catch: connect() raises.  A caller gets the exception; in the
\* reconnect task it leaves _reconnect_loop (line 161) and ends the task
ConnCbRaise(p) ==
  /\ pc[p] = "cb"
  /\ p \in Tasks => ~cancelReq[p]
  /\ pc' = [pc EXCEPT ![p] = IF p \in Callers THEN "idle" ELSE "dead"]
  /\ dwait' = IF p \in Reconns THEN Wake(dwait, p) ELSE dwait
  /\ escaped' = IF p \in Reconns THEN escaped \cup {p} ELSE escaped
  /\ UNCHANGED idled
  /\ UNCHANGED <<clientVars, cancelReq, rsock, wsock, fut, futRes, awaiting, qcmd, quota,
                 netVars, histVars, entityVars>>

\* ---- _reconnect_loop (nad_client.py 154-161) ------------------------------------
\* the task starts: the loop condition of line 156
RcStart(t) ==
  /\ pc[t] = "new" /\ ~cancelReq[t]
  /\ ConnReturn(t, connected, pc)
  /\ UNCHANGED <<clientVars, cancelReq, rsock, wsock, fut, futRes, awaiting, qcmd, quota,
                 netVars, histVars, entityVars, escaped, idled>>

\* line 160: connect() is attempted after the sleep
RetryWanted == should_reconnect

\* the sleep of line 158 is over: lines 160-161, or back to line 156
RcSleepDone(t) ==
  /\ pc[t] = "sleep" /\ ~cancelReq[t]
  /\ TimerMayFire
  /\ IF RetryWanted
       THEN /\ pc' = [pc EXCEPT ![t] = "conn"]
            /\ autoAfterDisc' = (autoAfterDisc \/ discCalled)
            /\ UNCHANGED dwait
       ELSE /\ ConnReturn(t, connected, pc)
            /\ UNCHANGED autoAfterDisc
  /\ UNCHANGED <<clientVars, cancelReq, rsock, wsock, fut, futRes, awaiting, qcmd, quota,
                 netVars, qres, sres, qframe, firstAfter, handed, entityVars, escaped, idled, qlost, notesTrue, lossSeen,
                 lossNotes, notesFalse, lost, discCalled, hdAfterDisc,
                 discSnap, discAgain, discLeak>>


\* ---- the media-player entity: its handlers (media_player.py) -------------------
\* str.lower() of the values the device sends
Lower(v) ==
  IF v = "Yes" THEN "yes" ELSE IF v = "No" THEN "no" ELSE IF v = "On" THEN "on" ELSE v
\* lines 205 and 219: key.startswith("Source") and key.endswith(suffix)
SourceKey(key, suffix) == Head(key) = "Source" /\ key[Len(key)] = suffix
\* lines 208 and 222: the key with "Source" and the suffix taken out
SourceNum(key, suffix) ==
  LET rest == SelectSeq(key, LAMBDA t : t \notin {"Source", suffix})
  IN IF rest = <<>> THEN "" ELSE rest[1]
\* line 147: sorted(d.keys()), for keys among the ids of SrcOrder
SortedKeys(d) == SelectSeq(SrcOrder, LAMBDA n : n \in Keys(d))

\* _update_source_list, lines 141-164, from the two dicts of the client
UpdateSourceList(en, names) ==
  IF en # <<>>
    THEN LET enabled_sources == SelectSeq(SortedKeys(en), LAMBDA n : Get(en, n, FALSE))
         IN [i \in DOMAIN enabled_sources |->
               LET source_name == Get(names, enabled_sources[i], "")
               IN IF source_name # "" THEN source_name
                  ELSE Get(SOURCES, enabled_sources[i], "Source")]
    ELSE IF names # <<>> THEN Values(names)
    ELSE Values(SOURCES)

\* lines 187-189 without max and min
ToUnitUnclamped(db) == db - VOLUME_MIN_DB
\* lines 187-189 and 263-265: max(0.0, min(1.0, (volume_db - VOLUME_MIN_DB) /
\* VOLUME_RANGE_DB)); a level is kept as its numerator over VOLUME_RANGE_DB
ToUnit(db) == Max2(0, Min2(VOLUME_RANGE_DB, db - VOLUME_MIN_DB))
\* the float level / VOLUME_RANGE_DB is exact when the quotient is dyadic, and
\* so is its product with VOLUME_RANGE_DB; otherwise the product is the
\* integer or the float just below or just above it
Roundings(level) == IF (2 * level) % VOLUME_RANGE_DB = 0 THEN {0} ELSE {-1, 0, 1}
\* int() of n / d: truncation toward zero
IntOf(n, d) == IF n >= 0 THEN n \div d ELSE -((-n) \div d)
\* line 308: int((volume * VOLUME_RANGE_DB) + VOLUME_MIN_DB), the product being
\* off by e parts of a unit
ToDb(level, e) == IntOf((level * Ulps + e) + VOLUME_MIN_DB * Ulps, Ulps)

\* _handle_update, lines 166-236, for the line m: the volume (184-191), the
\* enabled flag of a source (205-216) and its name (219-230); the other keys
\* set attributes that are not modelled
HandleUpdate(m) ==
  IF m.key = <<"Main.Volume">>
    THEN /\ attr_volume_level' = ToUnit(m.value)
         /\ volume_in' = <<m.value>> /\ volume_db' = <<>>
         /\ UNCHANGED <<source_enabled, source_names, attr_source_list>>
  ELSE IF m.key \in {<<"Main.Power">>, <<"Main.Mute">>, <<"Main.Source">>}
    THEN UNCHANGED entityVars
  ELSE IF SourceKey(m.key, ".Enabled")
    THEN LET source_num == SourceNum(m.key, ".Enabled")
             is_enabled == Lower(m.value) \in {"yes", "on", "true", "1"}
             en == Put(source_enabled, source_num, is_enabled)
         IN /\ source_enabled' = en
            /\ attr_source_list' = UpdateSourceList(en, source_names)
            /\ UNCHANGED <<source_names, attr_volume_level, volume_in, volume_db>>
  ELSE IF SourceKey(m.key, ".Name") /\ m.value # ""
    THEN LET names == Put(source_names, SourceNum(m.key, ".Name"), m.value)
         IN /\ source_names' = names
            /\ attr_source_list' = UpdateSourceList(source_enabled, names)
            /\ UNCHANGED <<source_enabled, attr_volume_level, volume_in, volume_db>>
  ELSE UNCHANGED entityVars

\* ---- _read_responses (nad_client.py 96-134) -------------------------------------
\* line 99 after an iteration that left the slot as pqIn / futIn: read again
\* from the current self._reader, or leave the loop and run the finally clause
LoopTop(t, pqIn, futIn) ==
  IF connected /\ reader # 0
    THEN /\ pc' = [pc EXCEPT ![t] = "read"]
         /\ rsock' = [rsock EXCEPT ![t] = reader]
         /\ pending_query' = pqIn
         /\ fut' = futIn
         /\ UNCHANGED <<connected, qlost, notesFalse, lossNotes, qcmd, reconnect_task,
                        cancelReq, autoAfterDisc, hdAfterDisc, dwait, lock, qres, sres>>
    ELSE /\ rsock' = [rsock EXCEPT ![t] = 0]
         /\ HandleDisconnect(t, 0, 0, pqIn, futIn, cancelReq)

ReaderStart(t) ==
  /\ pc[t] = "new" /\ ~cancelReq[t]
  /\ LoopTop(t, pending_query, fut)
  /\ UNCHANGED <<handles, wsock, futRes, awaiting, netVars, qframe, firstAfter, handed, entityVars, escaped, idled,
                 notesTrue, lossSeen, lost, discHist>>

\* line 110 without its test: a blank line is treated like any other
SurfacedAlways(f) == TRUE
\* line 110: the stripped line is not empty
Surfaced(f) == ~frameEmpty[f]

\* what self._status_callback holds: the constructor argument (line 20)
StatusHandler == IF status_callback THEN "ctor" ELSE "none"
\* what self._update_callback holds: line 21, and nothing assigns it
UpdateHandler == "none"
\* line 119: self._update_callback is set
update_callback == UpdateHandler # "none"

\* readuntil returned a line: lines 105-123.  A line that answers no query goes
\* to self._update_callback when it is set (line 119), and is dropped otherwise
ReaderRecv(t) ==
  /\ pc[t] = "read" /\ ~cancelReq[t]
  /\ buf[rsock[t]] # <<>> /\ sock[rsock[t]] # "err"
  /\ LET s == rsock[t]
         f == Head(buf[s])
         hit == Surfaced(f) /\ Armed(pending_query, fut)
     IN /\ buf' = [buf EXCEPT ![s] = Tail(@)]
        /\ futRes' = IF hit THEN [futRes EXCEPT ![pending_query] = f] ELSE futRes
        /\ handed' = [handed EXCEPT ![f] =
               IF hit THEN "query"
               ELSE IF ~Surfaced(f) THEN "no"
               ELSE IF update_callback THEN "callback" ELSE "dropped"]
        /\ IF ~hit /\ Surfaced(f) /\ update_callback
             THEN HandleUpdate(frameMsg[f])
             ELSE UNCHANGED entityVars
        /\ UNCHANGED <<escaped, idled>>
        /\ firstAfter' = [k \in Cmds |->
               IF /\ firstAfter[k] = 0 /\ ~frameEmpty[f]
                  /\ \E c \in Callers : qcmd[c] = k /\ pc[c] \in {"q_drain", "q_wait"}
               THEN f ELSE firstAfter[k]]
        /\ LoopTop(t, IF hit THEN 0 ELSE pending_query,
                      IF hit THEN [fut EXCEPT ![pending_query] = "result"] ELSE fut)
  /\ UNCHANGED <<handles, wsock, awaiting, sock, devVars, qframe,
                 notesTrue, lossSeen, lost, discHist>>

\* lines 125-127 with break in place of continue: a silent period ends the loop
TimeoutBreaksLoop == TRUE
\* lines 125-127: the handler of asyncio.TimeoutError is "continue"
TimeoutBreaks == FALSE

\* line 125-127: READ_TIMEOUT passed with no line
ReaderTimeout(t) ==
  /\ pc[t] = "read" /\ ~cancelReq[t]
  /\ ~Readable(rsock[t])
  /\ TimerMayFire
  /\ idled' = (idled \/ connected)
  /\ IF TimeoutBreaks
       THEN /\ rsock' = [rsock EXCEPT ![t] = 0]
            /\ HandleDisconnect(t, 0, 0, pending_query, fut, cancelReq)
       ELSE LoopTop(t, pending_query, fut)
  /\ UNCHANGED <<handles, wsock, futRes, awaiting, netVars, qframe, firstAfter, handed, entityVars, escaped,
                 notesTrue, lossSeen, lost, discHist>>

\* end of stream or an I/O error (lines 105-107, 128-130), then line 134
ReaderEOF(t) ==
  /\ pc[t] = "read" /\ ~cancelReq[t]
  /\ LET s == rsock[t]
     IN /\ sock[s] = "err" \/ (buf[s] = <<>> /\ sock[s] \in {"eof", "closed"})
        /\ lossSeen' = [lossSeen EXCEPT ![s] = TRUE]
        /\ lost' = TRUE
        /\ rsock' = [rsock EXCEPT ![t] = 0]
        /\ HandleDisconnect(t, s, 0, pending_query, fut, cancelReq)
  /\ UNCHANGED <<handles, wsock, futRes, awaiting, netVars, qframe, firstAfter, handed, entityVars, escaped, idled,
                 notesTrue, discHist>>

\* Task.cancel() reaches the task: CancelledError is raised at its await.  The
\* reconnect task ends; the reader runs its finally clause (line 134) unless
\* it had not started or was already inside it
TaskCancelled(t) ==
  /\ ~Done(t) /\ cancelReq[t]
  /\ IF t \in Readers /\ pc[t] = "read"
       THEN /\ rsock' = [rsock EXCEPT ![t] = 0]
            /\ HandleDisconnect(t, 0, 0, pending_query, fut,
                                [cancelReq EXCEPT ![t] = FALSE])
       ELSE /\ pc' = [pc EXCEPT ![t] = "dead"]
            /\ cancelReq' = [cancelReq EXCEPT ![t] = FALSE]
            /\ dwait' = Wake(dwait, t)
            /\ UNCHANGED <<connected, fut, pending_query, qlost, notesFalse, lossNotes,
                           qcmd, reconnect_task, autoAfterDisc, hdAfterDisc, lock,
                           qres, sres, rsock>>
  /\ UNCHANGED <<handles, wsock, futRes, awaiting, netVars, qframe, firstAfter, handed, entityVars, escaped, idled,
                 notesTrue, lossSeen, lost, discHist>>

\* ---- disconnect (nad_client.py 66-94) -------------------------------------------
\* lines 91-93
DiscClear ==
  /\ connected' = FALSE
  /\ reader' = 0
  /\ writer' = 0

\* disconnect() from `stage` to its next await or to its return:
\* 1: line 68, 2: line 77 (the reconnect task was awaited), 3: line 84 (the
\* reader task was awaited), 4: line 91 (wait_closed returned)
DiscRun(c, stage) ==
  LET doRc == stage = 1 /\ Alive(reconnect_task)
      doRd == ~doRc /\ stage <= 2 /\ Alive(read_task)
      doWc == ~doRc /\ ~doRd /\ stage <= 3 /\ writer # 0
      fin == ~doRc /\ ~doRd /\ ~doWc
  IN /\ should_reconnect' = FALSE
     /\ cancelReq' = IF doRc THEN [cancelReq EXCEPT ![reconnect_task] = TRUE]
                     ELSE IF doRd THEN [cancelReq EXCEPT ![read_task] = TRUE]
                     ELSE cancelReq
     /\ dwait' = [dwait EXCEPT ![c] = IF doRc THEN reconnect_task
                                      ELSE IF doRd THEN read_task ELSE 0]
     /\ pc' = [pc EXCEPT ![c] = IF doRc THEN "d_rc" ELSE IF doRd THEN "d_rd"
                                ELSE IF doWc THEN "d_wc" ELSE "idle"]
     /\ sock' = IF doWc THEN [sock EXCEPT ![writer] = "closed"] ELSE sock
     /\ IF fin THEN DiscClear ELSE UNCHANGED <<connected, reader, writer>>
     /\ discCalled' = TRUE
     /\ discSnap' = IF fin /\ discSnap = <<>>
                      THEN <<connected', reader', writer', should_reconnect', read_task,
                             reconnect_task, notesFalse, notesTrue>>
                      ELSE discSnap
     /\ discAgain' = (discAgain \/ (fin /\ discSnap # <<>>))
     /\ discLeak' = (discLeak \/ (fin /\ AliveReaders \cup AliveReconns # {}))
     /\ UNCHANGED <<read_task, reconnect_task, lock, pending_query, status_callback, attr_status_callback,
                 attr_update_callback,
                    rsock, wsock, fut, futRes, awaiting, qcmd, buf, devVars,
                    qres, sres, qframe, firstAfter, handed, entityVars, escaped, idled, qlost, notesTrue, lossSeen, lossNotes,
                    notesFalse, lost, autoAfterDisc, hdAfterDisc>>

DiscCall(c) ==
  /\ pc[c] = "idle" /\ quota.disconnect > 0
  /\ quota' = [quota EXCEPT !.disconnect = @ - 1]
  /\ DiscRun(c, 1)
DiscAfterReconnect(c) == pc[c] = "d_rc" /\ dwait[c] = 0 /\ DiscRun(c, 2) /\ UNCHANGED quota
DiscAfterReader(c) == pc[c] = "d_rd" /\ dwait[c] = 0 /\ DiscRun(c, 3) /\ UNCHANGED quota
DiscAfterClose(c) == pc[c] = "d_wc" /\ DiscRun(c, 4) /\ UNCHANGED quota


\* ---- send_command (nad_client.py 258-273) ---------------------------------------
\* what neither send_command nor query touch outside _handle_disconnect
ioFrame == <<handles, rsock, buf, frameRe, frameEmpty, frameMsg, nFrames, nEvents, nFails,
             firstAfter, handed, entityVars, escaped, idled, notesTrue, discHist>>
\* what _handle_disconnect would have changed, in a step that does not call it
noHD == <<connected, qlost, notesFalse, lossNotes, reconnect_task, cancelReq,
          autoAfterDisc, hdAfterDisc, dwait>>

\* the call is made: the coroutine asks for the lock (line 260)
SendCall(c) ==
  /\ pc[c] = "idle" /\ quota.send > 0
  /\ quota' = [quota EXCEPT !.send = @ - 1]
  /\ pc' = [pc EXCEPT ![c] = "s_lock"]
  /\ UNCHANGED <<clientVars, cancelReq, rsock, wsock, dwait, fut, futRes, awaiting,
                 qcmd, netVars, histVars, entityVars, escaped, idled>>

\* line 261: the guard of send_command
SendRefused == ~connected \/ writer = 0

\* the lock is acquired: lines 261-273 up to the return or the next await
SendEnter(c) ==
  /\ pc[c] = "s_lock" /\ lock = 0
  /\ IF SendRefused
       THEN /\ pc' = [pc EXCEPT ![c] = "idle"]
            /\ sres' = [sres EXCEPT ![c] = "false"]
            /\ UNCHANGED <<noHD, fut, pending_query, qcmd, lock, qres, wsock, devq,
                           nCmds, sock, lossSeen, lost>>
       ELSE \/ /\ Broken(writer)
               /\ lossSeen' = [lossSeen EXCEPT ![writer] = TRUE]
               /\ lost' = TRUE
               /\ HandleDisconnect(c, writer, 0, pending_query, fut, cancelReq)
               /\ UNCHANGED <<wsock, devq, nCmds, sock>>
            \/ /\ ~Broken(writer) /\ nCmds < MaxCmds
               /\ nCmds' = nCmds + 1
               /\ devq' = [devq EXCEPT ![writer] = @ \cup {nCmds + 1}]
               /\ \/ /\ pc' = [pc EXCEPT ![c] = "idle"]
                     /\ sres' = [sres EXCEPT ![c] = "true"]
                     /\ UNCHANGED <<lock, wsock>>
                  \/ /\ pc' = [pc EXCEPT ![c] = "s_drain"]
                     /\ lock' = c
                     /\ wsock' = [wsock EXCEPT ![c] = writer]
                     /\ UNCHANGED sres
               /\ UNCHANGED <<noHD, fut, pending_query, qcmd, qres, sock, lossSeen, lost>>
  /\ UNCHANGED <<ioFrame, futRes, awaiting, qframe>>

\* the suspended drain() of line 268 returns or raises
SendDrainDone(c) ==
  /\ pc[c] = "s_drain"
  /\ wsock' = [wsock EXCEPT ![c] = 0]
  /\ IF Broken(wsock[c])
       THEN /\ lossSeen' = [lossSeen EXCEPT ![wsock[c]] = TRUE]
            /\ lost' = TRUE
            /\ HandleDisconnect(c, wsock[c], 0, pending_query, fut, cancelReq)
       ELSE /\ pc' = [pc EXCEPT ![c] = "idle"]
            /\ lock' = 0
            /\ sres' = [sres EXCEPT ![c] = "true"]
            /\ UNCHANGED <<noHD, fut, pending_query, qcmd, qres, lossSeen, lost>>
  /\ UNCHANGED <<ioFrame, futRes, awaiting, qframe, devq, nCmds, sock>>

\* ---- query (nad_client.py 275-321) -----------------------------------------------
\* the future of a call that returned is garbage unless the slot still holds it
Retire(ft, c, pq1) == IF pq1 = c THEN ft ELSE [ft EXCEPT ![c] = "none"]

QueryCall(c) ==
  /\ pc[c] = "idle" /\ quota.query > 0
  /\ quota' = [quota EXCEPT !.query = @ - 1]
  /\ pc' = [pc EXCEPT ![c] = "q_lock"]
  /\ UNCHANGED <<clientVars, cancelReq, rsock, wsock, dwait, fut, futRes, awaiting,
                 qcmd, netVars, histVars, entityVars, escaped, idled>>

\* line 278: the guard of query
QueryRefused == ~connected \/ writer = 0 \/ reader = 0

\* line 290 moved after the write: only the leftover future is cancelled
ArmLate(c, ft) == CancelSlot(pending_query, ft)
\* lines 283-290: a leftover future is cancelled, the slot is armed with a new one
Arm(c, ft) == [CancelSlot(pending_query, ft) EXCEPT ![c] = "pending"]

\* the lock is acquired: lines 278-300 up to the return or the next await
QueryEnter(c) ==
  /\ pc[c] = "q_lock" /\ lock = 0
  /\ IF QueryRefused
       THEN /\ pc' = [pc EXCEPT ![c] = "idle"]
            /\ UNCHANGED <<noHD, fut, pending_query, qcmd, lock, qres, sres, wsock, devq,
                           nCmds, sock, lossSeen, lost, futRes, awaiting>>
       ELSE /\ nCmds < MaxCmds
            /\ nCmds' = nCmds + 1
            /\ futRes' = [futRes EXCEPT ![c] = 0]
            /\ LET k == nCmds + 1
               IN \/ /\ Broken(writer)
                     \* drain raises: lines 315-321
                     /\ lossSeen' = [lossSeen EXCEPT ![writer] = TRUE]
                     /\ lost' = TRUE
                     /\ HandleDisconnect(c, writer, k, 0, CancelSlot(c, Arm(c, fut)),
                                         cancelReq)
                     /\ UNCHANGED <<wsock, devq, sock, awaiting>>
                  \/ /\ ~Broken(writer)
                     /\ devq' = [devq EXCEPT ![writer] = @ \cup {k}]
                     /\ fut' = Arm(c, fut)
                     /\ pending_query' = c
                     /\ qcmd' = [qcmd EXCEPT ![c] = k]
                     /\ lock' = c
                     /\ \/ /\ pc' = [pc EXCEPT ![c] = "q_wait"]
                           /\ awaiting' = [awaiting EXCEPT ![c] = c]
                           /\ UNCHANGED wsock
                        \/ /\ pc' = [pc EXCEPT ![c] = "q_drain"]
                           /\ wsock' = [wsock EXCEPT ![c] = writer]
                           /\ UNCHANGED awaiting
                     /\ UNCHANGED <<noHD, qres, sres, sock, lossSeen, lost>>
  /\ UNCHANGED <<ioFrame, qframe>>

\* the suspended drain() of line 294 returns or raises; on return line 297
\* evaluates self._pending_query, and wait_for(None) raises TypeError
QueryDrainDone(c) ==
  /\ pc[c] = "q_drain"
  /\ wsock' = [wsock EXCEPT ![c] = 0]
  /\ IF Broken(wsock[c])
       THEN /\ lossSeen' = [lossSeen EXCEPT ![wsock[c]] = TRUE]
            /\ lost' = TRUE
            /\ HandleDisconnect(c, wsock[c], qcmd[c], 0,
                                CancelSlot(pending_query, fut), cancelReq)
            /\ UNCHANGED awaiting
       ELSE /\ IF pending_query = 0
                 THEN /\ pc' = [pc EXCEPT ![c] = "idle"]
                      /\ lock' = 0
                      /\ qres' = [qres EXCEPT ![qcmd[c]] = "raised"]
                      /\ UNCHANGED sres
                      /\ qcmd' = [qcmd EXCEPT ![c] = 0]
                      /\ fut' = Retire(fut, c, pending_query)
                      /\ UNCHANGED awaiting
                 ELSE /\ pc' = [pc EXCEPT ![c] = "q_wait"]
                      /\ awaiting' = [awaiting EXCEPT ![c] = pending_query]
                      /\ UNCHANGED <<lock, qres, sres, qcmd, fut>>
            /\ UNCHANGED <<noHD, pending_query, lossSeen, lost>>
  /\ UNCHANGED <<ioFrame, futRes, qframe, devq, nCmds, sock>>

\* the awaited future is done: the frame is returned (line 303), or the future
\* was cancelled and CancelledError is caught (lines 311-314)
QueryWake(c) ==
  /\ pc[c] = "q_wait" /\ FutDone(awaiting[c])
  /\ LET a == awaiting[c]
         k == qcmd[c]
         got == fut[a] = "result"
         pq1 == IF got THEN pending_query ELSE 0
     IN /\ pending_query' = pq1
        /\ qres' = [qres EXCEPT ![k] = IF got THEN "frame" ELSE "absent"]
        /\ UNCHANGED sres
        /\ qframe' = [qframe EXCEPT ![k] = IF got THEN futRes[a] ELSE 0]
        /\ fut' = Retire(fut, c, pq1)
  /\ pc' = [pc EXCEPT ![c] = "idle"]
  /\ lock' = 0
  /\ qcmd' = [qcmd EXCEPT ![c] = 0]
  /\ awaiting' = [awaiting EXCEPT ![c] = 0]
  /\ futRes' = [futRes EXCEPT ![c] = 0]
  /\ UNCHANGED <<noHD, ioFrame, wsock, devq, nCmds, sock, lossSeen, lost>>

\* line 309 left out: the timeout path leaves the slot as it is
TimeoutSlotKept == pending_query
\* line 309: the timeout path empties the slot
TimeoutSlot == 0

\* the timeout of wait_for passes: the future is cancelled, lines 305-310
QueryTimeout(c) ==
  /\ pc[c] = "q_wait" /\ ~FutDone(awaiting[c])
  /\ TimerMayFire
  /\ fut' = Retire(CancelSlot(pending_query, [fut EXCEPT ![awaiting[c]] = "cancelled"]),
                   c, 0)
  /\ pending_query' = TimeoutSlot
  /\ qres' = [qres EXCEPT ![qcmd[c]] = "absent"]
  /\ UNCHANGED sres
  /\ pc' = [pc EXCEPT ![c] = "idle"]
  /\ lock' = 0
  /\ qcmd' = [qcmd EXCEPT ![c] = 0]
  /\ awaiting' = [awaiting EXCEPT ![c] = 0]
  /\ UNCHANGED <<noHD, ioFrame, futRes, qframe, wsock, devq, nCmds, sock, lossSeen, lost>>

\* line 313 left out: the cancellation path leaves the slot as it is
CancelledSlotKept == pending_query
\* line 313: the cancellation path empties the slot
CancelledSlot == 0

\* the caller of query() is cancelled at the drain() of line 294 or at the
\* wait_for of line 297 (which cancels the future it awaits): lines 311-314
QueryCancelled(c) ==
  /\ pc[c] \in {"q_drain", "q_wait"}
  /\ fut' = Retire(IF pc[c] = "q_wait" /\ awaiting[c] # 0 /\ ~FutDone(awaiting[c])
                     THEN [fut EXCEPT ![awaiting[c]] = "cancelled"] ELSE fut,
                   c, CancelledSlot)
  /\ pending_query' = CancelledSlot
  /\ qres' = [qres EXCEPT ![qcmd[c]] = "absent"]
  /\ UNCHANGED sres
  /\ pc' = [pc EXCEPT ![c] = "idle"]
  /\ lock' = 0
  /\ qcmd' = [qcmd EXCEPT ![c] = 0]
  /\ awaiting' = [awaiting EXCEPT ![c] = 0]
  /\ wsock' = [wsock EXCEPT ![c] = 0]
  /\ UNCHANGED <<noHD, ioFrame, futRes, qframe, devq, nCmds, sock, lossSeen, lost>>

\* ---- the media-player entity (media_player.py) -------------------------------------
\* NADAVRMediaPlayer.__init__, lines 85-86: the entity stores its handlers in
\* the attributes status_callback and update_callback of the client
EntityInit ==
  /\ attr_status_callback = "unset"
  /\ attr_status_callback' = "entity"
  /\ attr_update_callback' = "entity"
  /\ UNCHANGED <<connected, reader, writer, should_reconnect, read_task, reconnect_task,
                 lock, pending_query, status_callback, coVars, netVars, histVars, entityVars, escaped, idled>>

\* the device reports the volume db and the entity converts it: async_update,
\* lines 258-265, the conversion of _handle_update 186-189
VolumeReported(db) ==
  /\ attr_volume_level' = ToUnit(db)
  /\ volume_in' = <<db>> /\ volume_db' = <<>>
  /\ UNCHANGED <<clientVars, coVars, netVars, histVars, source_enabled, source_names,
                 attr_source_list, escaped, idled>>

\* async_set_volume_level(volume), lines 305-311, called with the level the
\* entity shows: the dB value it formats into the command
SetVolumeLevel ==
  /\ volume_in # <<>>
  /\ \E e \in Roundings(attr_volume_level) : volume_db' = <<ToDb(attr_volume_level, e)>>
  /\ UNCHANGED <<clientVars, coVars, netVars, histVars, source_enabled, source_names,
                 attr_source_list, attr_volume_level, volume_in, escaped, idled>>

\* ---- the device and the network ---------------------------------------------------
\* the device answers command k on connection s
DevReply(s, k) ==
  /\ sock[s] = "open" /\ k \in devq[s]
  /\ nFrames' = nFrames + 1
  /\ frameRe' = [frameRe EXCEPT ![nFrames + 1] = k]
  /\ buf' = [buf EXCEPT ![s] = Append(@, nFrames + 1)]
  /\ devq' = [devq EXCEPT ![s] = @ \ {k}]
  /\ UNCHANGED <<clientVars, coVars, sock, frameEmpty, frameMsg, nCmds, nEvents, nFails, histVars, entityVars, escaped, idled>>

\* the device pushes an unsolicited line m, or a blank one
DevEvent(s, blank, m) ==
  /\ sock[s] = "open" /\ nEvents < quota.events
  /\ nEvents' = nEvents + 1
  /\ nFrames' = nFrames + 1
  /\ frameEmpty' = [frameEmpty EXCEPT ![nFrames + 1] = blank]
  /\ frameMsg' = [frameMsg EXCEPT ![nFrames + 1] = m]
  /\ buf' = [buf EXCEPT ![s] = Append(@, nFrames + 1)]
  /\ UNCHANGED <<clientVars, coVars, sock, devq, frameRe, nCmds, nFails, histVars, entityVars, escaped, idled>>

\* the device closes its side: the reader will see end of stream
DevClose(s) ==
  /\ sock[s] = "open"
  /\ sock' = [sock EXCEPT ![s] = "eof"]
  /\ UNCHANGED <<clientVars, coVars, buf, devVars, histVars, entityVars, escaped, idled>>

\* the connection breaks: reads and writes fail
NetError(s) ==
  /\ sock[s] \in {"open", "eof"}
  /\ sock' = [sock EXCEPT ![s] = "err"]
  /\ UNCHANGED <<clientVars, coVars, buf, devVars, histVars, entityVars, escaped, idled>>

\* ---- the specifications ---------------------------------------------------------------
\* steps of connect(), of the tasks and of the device (which answers the
\* commands it gets), common to every scenario
Background ==
  \/ \E c \in Callers : ConnectCall(c)
  \/ \E p \in Callers \cup Reconns : ConnectOk(p) \/ ConnectFail(p) \/ ConnCbReturn(p)
  \/ \E p \in Callers \cup Readers : HdCbReturn(p)
  \/ \E t \in Reconns : RcStart(t) \/ RcSleepDone(t)
  \/ \E t \in Readers : ReaderStart(t) \/ ReaderRecv(t) \/ ReaderTimeout(t) \/ ReaderEOF(t)
  \/ \E s \in Socks : DevClose(s) \/ NetError(s)
  \/ \E s \in Socks, k \in Cmds : DevReply(s, k)
Sending ==
  \E c \in Callers : SendCall(c) \/ SendEnter(c) \/ SendDrainDone(c)
Querying ==
  \/ \E c \in Callers :
        \/ QueryCall(c) \/ QueryEnter(c) \/ QueryDrainDone(c)
        \/ QueryWake(c) \/ QueryTimeout(c)
  \/ \E s \in Socks, blank \in BOOLEAN : DevEvent(s, blank, PowerLine)
Disconnecting ==
  \/ \E c \in Callers :
        \/ DiscCall(c) \/ DiscAfterReconnect(c) \/ DiscAfterReader(c)
        \/ DiscAfterClose(c)
  \/ \E t \in Tasks : TaskCancelled(t)

\* the scenarios: what the callers and the device do at most in one run
Budget(c, d, s, q, k, f, e) ==
  [connect |-> c, disconnect |-> d, send |-> s, query |-> q,
   socks |-> k, fails |-> f, events |-> e]

\* queries on one connection, with its loss and the reconnection attempts
InitQuery == InitWith(Budget(1, 0, 0, QQueries, 1, QFails, QEvents))
NextQuery == Background \/ Querying
SpecQuery == InitQuery /\ [][NextQuery]_vars

\* connection loss and reconnection, with connect() and send_command() calls
InitLoss == InitWith(Budget(LConnects, 0, 1, 0, LSocks, LFails, 0))
NextLoss == Background \/ Sending
SpecLoss == InitLoss /\ [][NextLoss]_vars

\* disconnect() against connect(), send_command() and the tasks
InitDisc == InitWith(Budget(DConnects, DDisconnects, 1, 0, 2, DFails, 0))
NextDisc == Background \/ Sending \/ Disconnecting
SpecDisc == InitDisc /\ [][NextDisc]_vars

\* the integration: the entity is constructed around the client, connect() is
\* called (by async_setup_entry and by async_added_to_hass), commands are sent
InitEntity == InitWith(Budget(EConnects, 0, 1, 0, 2, EFails, EEvents))
NextEntity ==
  \/ Background \/ Sending \/ EntityInit
  \/ \E s \in Socks, blank \in BOOLEAN : DevEvent(s, blank, PowerLine)
SpecEntity == InitEntity /\ [][NextEntity]_vars

\* the status callback may raise: connection loss and reconnection as in
\* SpecLoss, with a callback that fails at any of its calls
Raising ==
  \/ \E p \in Callers \cup Readers : HdCbRaise(p)
  \/ \E p \in Callers \cup Reconns : ConnCbRaise(p)
InitRaise == InitWith(Budget(RConnects, 0, 1, 0, 2, RFails, 0))
NextRaise == Background \/ Sending \/ Raising
SpecRaise == InitRaise /\ [][NextRaise]_vars

\* queries as in SpecQuery, whose callers may be cancelled while they wait
InitCancel == InitWith(Budget(1, 0, 0, CQueries, 1, CFails, CEvents))
NextCancel == Background \/ Querying \/ \E c \in Callers : QueryCancelled(c)
SpecCancel == InitCancel /\ [][NextCancel]_vars

\* the source directory: the entity is constructed, connect() is called, and
\* the device pushes lines about its sources on a connection that stays up
\* (a read that times out starts again, line 125-127, and changes nothing)
InitSources == InitWith(Budget(1, 0, 0, 0, 1, 0, SEvents))
NextSources ==
  \/ EntityInit
  \/ \E c \in Callers : ConnectCall(c) \/ ConnectOk(c) \/ ConnCbReturn(c)
  \/ \E t \in Readers : ReaderStart(t) \/ ReaderRecv(t)
  \/ \E s \in Socks, m \in SourceLines :
        attr_update_callback = "entity" /\ DevEvent(s, FALSE, m)
SpecSources == InitSources /\ [][NextSources]_vars

\* the two conversions of the volume, applied to every value the device reports
InitVolume == InitWith(Budget(0, 0, 0, 0, 0, 0, 0))
NextVolume ==
  \/ \E db \in (VOLUME_MIN_DB - VolMargin)..(VOLUME_MAX_DB + VolMargin) : VolumeReported(db)
  \/ SetVolumeLevel
SpecVolume == InitVolume /\ [][NextVolume]_vars

\* ---- fairness: what the event loop guarantees -------------------------------------------
\* a coroutine that can go on is run: callers inside a call (asyncio.Lock wakes
\* its waiters, a drain() or a callback returns, a timer fires) ...
FairCaller(c) ==
  WF_vars(\/ QueryEnter(c) \/ QueryDrainDone(c) \/ QueryWake(c) \/ QueryTimeout(c)
          \/ SendEnter(c) \/ SendDrainDone(c) \/ HdCbReturn(c) \/ ConnCbReturn(c)
          \/ DiscAfterReconnect(c) \/ DiscAfterReader(c) \/ DiscAfterClose(c))
\* ... and the tasks
FairTask(t) ==
  WF_vars(\/ TaskCancelled(t) \/ HdCbReturn(t) \/ ConnCbReturn(t)
          \/ (t \in Readers /\ (ReaderStart(t) \/ ReaderRecv(t) \/ ReaderEOF(t)))
          \/ (t \in Reconns /\ (RcStart(t) \/ RcSleepDone(t))))
Fair == (\A c \in Callers : FairCaller(c)) /\ (\A t \in Tasks : FairTask(t))
\* the device is reachable: a connection attempt that can succeed does
Reachable == \E x \in Socks : x <= quota.socks /\ sock[x] = "none"
FairDevice == \A p \in Callers \cup Reconns : WF_vars(ConnectOk(p))

\* queries against loss and disconnect(), under fair scheduling
InitWait == InitWith(Budget(1, WDisconnects, 0, WQueries, 1, WFails, WEvents))
NextWait == Background \/ Querying \/ Disconnecting
SpecWait == InitWait /\ [][NextWait]_vars /\ Fair

\* connection loss and reconnection with a reachable device, under fair scheduling
SpecLossFair == InitLoss /\ [][NextLoss]_vars /\ Fair /\ FairDevice

\* ---- properties ---------------------------------------------------------------------------
\* C1: a query() call that returns a frame returns the first non-empty frame the
\* reader received after the call wrote its command, and no frame is returned
\* to two calls
C1_FirstFrameAfterWrite ==
  \A k \in Cmds :
     qres[k] = "frame" =>
        /\ qframe[k] # 0
        /\ qframe[k] = firstAfter[k]
        /\ \A j \in Cmds : (j # k /\ qres[j] = "frame") => qframe[j] # qframe[k]
\* two calls made one after the other have each returned a frame, and a blank
\* line was received while the first one waited
C1_Witness ==
  /\ \A k \in Cmds : qres[k] = "frame"
  /\ \E f \in FrameIds : frameEmpty[f] /\ f < qframe[1]

\* C2: a frame the device sent in reply to the command of one query() call is
\* never the result of another query() call
C2_NoCrossTalk ==
  \A k \in Cmds :
     qres[k] = "frame" => frameRe[qframe[k]] \in {0, k}

\* C3: after the loss of an established connection, with disconnect() never
\* called, exactly one reconnection loop task is running (once the
\* _handle_disconnect that detected the loss has run to its end)
C3_OneReconnectLoop ==
  /\ Cardinality(AliveReconns) <= 1
  /\ (lost /\ ~discCalled /\ \A p \in Procs : pc[p] # "hd_cb")
        => Cardinality(AliveReconns) = 1

\* C4: the loss of an established connection is notified by exactly one
\* connectivity-changed(false), whoever detects it and however often
C4_OneLossNotification ==
  \A s \in Socks :
     /\ lossNotes[s] <= 1
     /\ (status_callback /\ lossSeen[s]) => lossNotes[s] = 1

\* C5: when the connection is lost while a query() call waits for its reply, the
\* slot is emptied, the call's future is cancelled and the call returns absent
C5_LossCancelsPending ==
  /\ \A c \in Callers :
        (qcmd[c] # 0 /\ qlost[qcmd[c]]) => (pending_query = 0 /\ fut[c] = "cancelled")
  /\ \A k \in Cmds : (qlost[k] /\ qres[k] # "none") => qres[k] = "absent"
\* a call that was waiting when the connection was lost has returned
C5_Witness == \E k \in Cmds : qlost[k] /\ qres[k] = "absent"

\* C6: every query() call eventually returns a frame or absent: a call queued
\* on the lock gets past it, and a call that wrote its command returns
C6_EveryQueryReturns ==
  /\ \A c \in Callers : (pc[c] = "q_lock") ~> (pc[c] # "q_lock")
  /\ \A k \in Cmds : (\E c \in Callers : qcmd[c] = k) ~> (qres[k] \in {"frame", "absent"})

\* C7: after the loss of an established connection, with reconnection wanted
\* and the device reachable, the session becomes Connected again
C7_ReconnectsAfterLoss ==
  (lost /\ should_reconnect /\ Reachable) ~> connected

\* C8: when disconnect() returns the session is not connected, both socket
\* handles are cleared and neither the reader task nor the reconnect task is
\* alive (lines 91-93 always clear the fields, so discLeak records the tasks)
C8_NothingAliveAtReturn == ~discLeak

\* C9: a disconnect() that returns after an earlier one, with no connect() in
\* between, leaves the fields of the session and the count of notifications
\* as the earlier one left them
C9_DisconnectIdempotent == discSnap # <<>> => Fields = discSnap
\* a connection was made and closed by disconnect(), and a second disconnect()
\* has returned with no connect() in between
C9_Witness == discAgain /\ discSnap # <<>> /\ \E s \in Socks : sock[s] = "closed"

\* C10: once disconnect() has been called no reconnection loop is started and
\* no automatic connect attempt is made
C10_NoAutoReconnectAfterDisconnect == ~autoAfterDisc
\* after disconnect() was called, _handle_disconnect ran on the Connected
\* session (the reader was cancelled or saw the loss) up to its reconnect check
C10_Witness == hdAfterDisc /\ discCalled

\* C11: once a second query() has been invoked while an earlier one waits for
\* its reply, the earlier call gets no frame: no step hands its future a result
C11_LastQueryWins ==
  [][\A c, d \in Callers :
        (pc[c] = "q_wait" /\ fut[c] = "pending" /\ pc[d] = "q_lock")
           => fut'[c] # "result"]_vars

\* C12: a query() call whose timeout passes returns absent and empties the
\* slot; the session stays as it is: still Connected, same handles and tasks,
\* no connectivity notification, no reconnection loop started
C12_TimeoutIsLocal ==
  [][\A c \in Callers :
        QueryTimeout(c) =>
           /\ qres'[qcmd[c]] = "absent"
           /\ pending_query' = 0
           /\ connected /\ connected'
           /\ UNCHANGED <<reader, writer, should_reconnect, read_task, reconnect_task,
                          notesFalse, notesTrue, lossNotes>>
           /\ \A t \in Tasks : pc'[t] = pc[t]]_vars
\* a call has timed out on a connection that was never lost
C12_Witness ==
  /\ connected /\ notesFalse = 0 /\ \A s \in Socks : ~lossSeen[s]
  /\ \E k \in Cmds : qres[k] = "absent" /\ ~qlost[k]

\* C13: every non-empty frame the reader receives is handed to a consumer: the
\* pending query if one is armed, the unsolicited-frame callback otherwise
C13_EveryFrameConsumed ==
  \A f \in FrameIds : handed[f] # "dropped"

\* C14: once the entity has registered its handlers, a connectivity transition
\* of the session calls the entity's _connection_status_changed and an
\* unsolicited frame calls its _handle_update: the handler the session
\* invokes is the one the entity registered
C14_EntityHandlersInvoked ==
  [][/\ (attr_status_callback = "entity" /\ connected' # connected)
          => StatusHandler = attr_status_callback
     /\ (attr_update_callback = "entity" /\
         \E f \in FrameIds : handed[f] = "no" /\ handed'[f] \in {"callback", "dropped"})
          => UpdateHandler = attr_update_callback]_vars

\* C15: a connect() call that fails leaves the session not connected, notifies
\* connectivity-changed(false) and starts no reconnection loop; a loop is
\* started only inside _handle_disconnect, by a step that takes the session
\* out of Connected or by the return of the status callback it awaited
C15_FailedConnectNoRetry ==
  [][/\ \A p \in Callers \cup Reconns :
           ConnectFail(p) =>
              /\ ~connected'
              /\ status_callback => notesFalse' = notesFalse + 1
              /\ reconnect_task' = reconnect_task
              /\ \A t \in Reconns : Done(t) => pc'[t] = "dead"
     /\ (\E t \in Reconns : Done(t) /\ pc'[t] # "dead")
           => \/ connected /\ ~connected'
              \/ \E p \in Procs : pc[p] = "hd_cb" /\ pc'[p] # "hd_cb"]_vars
\* a connect() call made by a caller has failed, it was notified, and no
\* reconnection loop has ever been started
C15_Witness ==
  /\ nFails > 0 /\ ~connected /\ notesFalse > 0
  /\ reconnect_task = 0
  /\ \A c \in Callers : pc[c] = "idle"

\* C16: send_command on a session that is not Connected returns false and
\* writes nothing; when its write fails it runs the disconnect transition and
\* returns false: the session is not connected afterwards, no query is
\* pending, a loss met in Connected is notified, and when the call returns
\* with reconnection wanted a reconnection loop is running
C16_SendFailure ==
  [][\A c \in Callers :
        /\ (SendEnter(c) /\ ~connected)
              => (sres'[c] = "false" /\ pc'[c] = "idle" /\ UNCHANGED <<devq, nCmds, buf>>)
        /\ (\/ SendEnter(c) /\ ~SendRefused /\ Broken(writer)
            \/ SendDrainDone(c) /\ Broken(wsock[c]))
              => /\ ~connected'
                 /\ pending_query' = 0
                 /\ \A d \in Callers : fut'[d] # "pending"
                 /\ IF connected /\ status_callback
                      THEN notesFalse' = notesFalse + 1 /\ pc'[c] = "hd_cb"
                      ELSE /\ sres'[c] = "false" /\ pc'[c] = "idle"
                           /\ UNCHANGED notesFalse
                           /\ should_reconnect
                                => (reconnect_task' # 0 /\ pc'[reconnect_task'] # "dead")
        /\ (pc[c] = "hd_cb" /\ qcmd[c] = 0 /\ HdCbReturn(c))
              => /\ sres'[c] = "false" /\ pc'[c] = "idle"
                 /\ should_reconnect
                      => (reconnect_task' # 0 /\ pc'[reconnect_task'] # "dead")]_vars

\* C17: once the reader has taken the lines SourceN.Enabled=Yes and
\* SourceN.Name=X (the latest of their kind for N), the directory has N enabled
\* with name X and the source list contains X; once the latest Enabled line
\* taken for N says No, the source list has one entry for each source whose
\* latest Enabled line says Yes and none for N, whose name stays cached
Taken(f) == handed[f] \in {"callback", "dropped"}
LatestTaken(n, suffix) ==
  LET fs == {f \in FrameIds : Taken(f) /\ frameMsg[f].key = <<"Source", n, suffix>>
                                 /\ (suffix = ".Name" => frameMsg[f].value # "")}
  IN IF fs = {} THEN "" ELSE frameMsg[CHOOSE f \in fs : \A g \in fs : g <= f].value
C17_SourceDirectory ==
  \A i \in DOMAIN SrcOrder :
     LET n == SrcOrder[i]
         x == LatestTaken(n, ".Name")
         shown == {j \in DOMAIN SrcOrder : LatestTaken(SrcOrder[j], ".Enabled") = "Yes"}
     IN /\ (LatestTaken(n, ".Enabled") = "Yes" /\ x # "")
             => /\ Get(source_enabled, n, FALSE)
                /\ Get(source_names, n, "") = x
                /\ \E k \in DOMAIN attr_source_list : attr_source_list[k] = x
        /\ LatestTaken(n, ".Enabled") = "No"
             => /\ ~Get(source_enabled, n, TRUE)
                /\ Get(source_names, n, "") = x
                /\ Len(attr_source_list) = Cardinality(shown)

\* C18: the level computed from a reported volume is within [0, 1], and for a
\* reported volume db in [VOLUME_MIN_DB, VOLUME_MAX_DB] the dB value that
\* async_set_volume_level computes from that level is within 1 of db
C18_VolumeRoundTrip ==
  /\ 0 <= attr_volume_level /\ attr_volume_level <= VOLUME_RANGE_DB
  /\ (volume_in # <<>> /\ volume_db # <<>>
        /\ volume_in[1] >= VOLUME_MIN_DB /\ volume_in[1] <= VOLUME_MAX_DB)
       => /\ volume_db[1] - volume_in[1] <= 1
          /\ volume_in[1] - volume_db[1] <= 1
\* a volume inside the range has made the round trip and come back changed by
\* the truncation
C18_Witness ==
  /\ volume_in # <<>> /\ volume_db # <<>>
  /\ volume_in[1] > VOLUME_MIN_DB /\ volume_in[1] < VOLUME_MAX_DB
  /\ volume_db[1] # volume_in[1]
  /\ attr_volume_level = volume_in[1] - VOLUME_MIN_DB

\* C19: at most one caller is inside the lock at a time, and every step that
\* writes a command to the socket, arms the pending-query slot or cancels the
\* future in it is a step of the caller that holds the lock (or takes it in
\* that step)
InsideLock(c) == pc[c] \in {"q_drain", "q_wait", "s_drain", "hd_cb"}
LockStep(c) ==
  /\ pc'[c] # pc[c]
  /\ lock = c \/ (lock = 0 /\ pc[c] \in {"q_lock", "s_lock"})
C19_SlotUnderLock ==
  /\ [](\A c, d \in Callers : (InsideLock(c) /\ InsideLock(d)) => (c = d /\ lock = c))
  /\ [][(\/ nCmds' # nCmds
         \/ pending_query' # 0 /\ pending_query' # pending_query
         \/ \E c \in Callers : fut[c] # "pending" /\ fut'[c] = "pending"
         \/ \E c \in Callers : fut[c] = "pending" /\ fut'[c] = "cancelled")
           => \E c \in Callers : LockStep(c)]_vars

\* C20: a reader task reads from one socket only; a reader that meets the end
\* or an error of a socket that is not the session's current one leaves the
\* connected flag as it is; and whenever the session is connected a reader
\* task is reading from the current socket (or was just created and will)
C20_ReaderServesOnePeriod ==
  /\ [][\A t \in Readers :
          /\ (rsock[t] # 0 /\ rsock'[t] # 0) => rsock'[t] = rsock[t]
          /\ (ReaderEOF(t) /\ rsock[t] # reader) => connected' = connected]_vars
  /\ [](connected => \E t \in Readers :
                        \/ pc[t] = "new" /\ ~cancelReq[t]
                        \/ pc[t] = "read" /\ rsock[t] = reader)

\* C21: at most one connection of the session is open at any time: connect()
\* opens none while an earlier one is still open
OpenSocks == {s \in Socks : sock[s] = "open"}
C21_OneOpenSocket == Cardinality(OpenSocks) <= 1

\* C22: whenever the session is not connected its socket handles are None
C22_HandlesOnlyWhileConnected == ~connected => (reader = 0 /\ writer = 0)

\* C23: at every moment at most one reader task and at most one reconnect
\* task of the session is alive
C23_OneTaskOfEachKind ==
  Cardinality(AliveReaders) <= 1 /\ Cardinality(AliveReconns) <= 1
\* after a loss a connection has been made again: the reader task of the new
\* connection is alive while the reconnect task has not yet finished
C23_Witness ==
  /\ connected /\ \E s \in Socks : lossSeen[s]
  /\ Cardinality(AliveReaders) = 1 /\ Cardinality(AliveReconns) = 1
  /\ Alive(read_task) /\ Alive(reconnect_task)

\* C24: no reader task and no reconnect task ends with an exception that
\* nobody handles, and when the connectivity callback raises during the
\* disconnect transition of the reader task, with reconnection wanted, a
\* reconnection loop is running afterwards
C24_NothingEscapes ==
  /\ [](escaped = {})
  /\ [][\A t \in Readers : (HdCbRaise(t) /\ should_reconnect)
            => (reconnect_task' # 0 /\ pc'[reconnect_task'] # "dead")]_vars

\* C25: whenever no caller is inside query() the pending-query slot is empty,
\* and at most one future is unfulfilled at any moment
InQuery(c) == pc[c] \in {"q_drain", "q_wait"} \/ (pc[c] = "hd_cb" /\ qcmd[c] # 0)
C25_SlotEmptyOutsideQuery ==
  /\ (\A c \in Callers : ~InQuery(c)) => pending_query = 0
  /\ Cardinality({c \in Callers : fut[c] = "pending"}) <= 1
\* queries have returned with a frame and, on a connection that was not
\* lost, without one; the session is connected and no caller is inside query()
C25_Witness ==
  /\ connected /\ pending_query = 0 /\ \A c \in Callers : ~InQuery(c)
  /\ \E k \in Cmds : qres[k] = "absent" /\ ~qlost[k]
  /\ \E k \in Cmds : qres[k] = "frame"

\* C26: the step of query() that writes the command leaves the slot armed with
\* the caller's future and the lock held by the caller; and when the reader
\* takes the reply to the command of a query in progress, it hands it to that
\* query unless the query's future is already fulfilled or cancelled
C26_ArmedBeforeWrite ==
  [][/\ \A c \in Callers :
          (QueryEnter(c) /\ devq' # devq)
             => (pending_query' = c /\ fut'[c] = "pending" /\ lock' = c)
     /\ \A t \in Readers :
          (ReaderRecv(t) /\ Surfaced(Head(buf[rsock[t]])))
             => \A c \in Callers :
                  (/\ pc[c] \in {"q_drain", "q_wait"}
                   /\ frameRe[Head(buf[rsock[t]])] = qcmd[c])
                    => \/ handed'[Head(buf[rsock[t]])] = "query"
                       \/ fut[c] \in {"result", "cancelled"}]_vars
\* the reply came while the caller was still in drain(), after the write and
\* before the wait: the reader found the slot armed and fulfilled the future
C26_Witness ==
  \E c \in Callers :
     /\ pc[c] = "q_drain" /\ fut[c] = "result"
     /\ futRes[c] # 0 /\ frameRe[futRes[c]] = qcmd[c]
     /\ handed[futRes[c]] = "query"

\* C27: a read that ends by READ_TIMEOUT changes nothing of the session: the
\* connection flag, the handles, the slot, the futures, the notifications
\* issued and the reconnect task stay as they were, and the reader of a
\* Connected session is reading again; a reader that was not cancelled
\* leaves the read loop of a Connected session only by end of stream or an
\* I/O error
C27_TimeoutIsNotALoss ==
  [][\A t \in Readers :
       /\ ReaderTimeout(t)
             => /\ UNCHANGED <<connected, handles, pending_query, fut, notesFalse, notesTrue,
                               lossNotes, reconnect_task, should_reconnect>>
                /\ \A r \in Reconns : pc'[r] = pc[r]
                /\ connected => pc'[t] = "read"
       /\ (pc[t] = "read" /\ ~cancelReq[t] /\ connected /\ pc'[t] # "read")
             => ReaderEOF(t)]_vars
\* a read of a Connected session has timed out, the session is still
\* Connected and its reader is reading
C27_Witness ==
  /\ idled /\ connected /\ Alive(read_task) /\ pc[read_task] = "read"
  /\ notesFalse = 0 /\ reconnect_task = 0

====
